---- MODULE Spec2Model ----
(***************************************************************************)
(* A model of the GitBook MCP server (src/src/index.ts): the start-up      *)
(* sequence (env file loading, configuration resolution, API token check,  *)
(* client construction, transport connection) and the request/response     *)
(* cycle of every registered tool, resource and prompt.                    *)
(*                                                                         *)
(* JavaScript values are modelled as follows.  A string is a TLA+ string;  *)
(* the value undefined is the sentinel Undefined, which no program string  *)
(* equals.  A JSON value is a record [t, s, a, o] (see JNull .. JObj).     *)
(***************************************************************************)
EXTENDS Integers, Sequences, FiniteSets, TLC

VARIABLES
    argv,           \* parsed CLI flags {organizationId, spaceId}
    env,            \* process.env (the four variables the program reads)
    envFileState,   \* the four env files of envFiles, in search order
    localFiles,     \* the four documented local configuration files
    DEBUG,          \* the module constant DEBUG (index.ts:108)
    envLoaded,      \* the module variable envLoaded (index.ts:106)
    pc,             \* position of the module's top-level code
    apiToken,       \* the module constant apiToken (index.ts:488)
    resolvedConfig, \* the module constant resolvedConfig (index.ts:489)
    gitbookClient,  \* the GitBookAPIClient instance, or NoClient
    resources,      \* names of the registered resources
    stdout,         \* JSON-RPC log notifications written by sendLogMessage
    stderr,         \* lines written by console.error
    exitCode,       \* the code passed to process.exit (0 while running)
    call,           \* the tool / resource / prompt invocation in progress
    concurrent      \* a second invocation dispatched while call is in flight

vars == <<argv, env, envFileState, localFiles, DEBUG, envLoaded, pc, apiToken,
          resolvedConfig, gitbookClient, resources, stdout, stderr, exitCode,
          call, concurrent>>

-----------------------------------------------------------------------------
(* JavaScript strings, undefined and truthiness *)

Undefined == "<undefined>"

\* !v for a value that is a string or undefined
Falsy(v) == v = Undefined \/ v = ""

Truthy(v) == ~Falsy(v)

\* a || b
Or(a, b) == IF Truthy(a) THEN a ELSE b

\* `${v}` inside a template literal
Interpolate(v) == IF v = Undefined THEN "undefined" ELSE v

-----------------------------------------------------------------------------
(* Inputs of a run *)

CliOrgValues == {Undefined, "", "org_cli"}
CliSpaceValues == {Undefined, "", "space_cli"}
EnvOrgValues == {Undefined, "", "org_env"}
EnvSpaceValues == {Undefined, "", "space_env"}
EnvTokenValues == {Undefined, "", "tok_env"}
EnvDebugValues == {Undefined, "1"}

EnvVarNames == {"GITBOOK_API_TOKEN", "GITBOOK_ORGANIZATION_ID",
                "GITBOOK_SPACE_ID", "DEBUG"}

\* An env file is missing, exists but cannot be loaded, or holds assignments
\* (a variable the file does not assign is Undefined in the record).
MissingFile == [exists |-> FALSE, error |-> FALSE,
                vars |-> [n \in EnvVarNames |-> Undefined]]
UnreadableFile == [exists |-> TRUE, error |-> TRUE,
                   vars |-> [n \in EnvVarNames |-> Undefined]]
EnvFile(tok, org, space, dbg) ==
    [exists |-> TRUE, error |-> FALSE,
     vars |-> [n \in EnvVarNames |->
                 CASE n = "GITBOOK_API_TOKEN" -> tok
                   [] n = "GITBOOK_ORGANIZATION_ID" -> org
                   [] n = "GITBOOK_SPACE_ID" -> space
                   [] OTHER -> dbg]]

\* index.ts:99-104
envFiles == <<"<root>/.env.local", "<root>/.env", ".env.local", ".env">>

EnvFileChoices ==
    <<{MissingFile, UnreadableFile,
       EnvFile("tok_local", "org_local", Undefined, "1")},
      {MissingFile, UnreadableFile,
       EnvFile("tok_dotenv", Undefined, "space_dotenv", Undefined)},
      {MissingFile, EnvFile(Undefined, "org_cwd_local", Undefined, Undefined)},
      {MissingFile, EnvFile("tok_cwd", Undefined, Undefined, Undefined)}>>

\* README.md:317-333: the documented local configuration files, in order; a
\* file is described by the values its recognizable keys carry.
LocalFileNames == <<".github/copilot-instructions.md", ".cursorrules",
                    ".cursor/rules/rules.md", ".cursor/rules/instructions.md">>

NoKeys == [organizationId |-> Undefined, spaceId |-> Undefined]

LocalFileChoices ==
    {<<NoKeys, NoKeys, NoKeys, NoKeys>>,
     <<[organizationId |-> "org_copilot", spaceId |-> "space_copilot"],
       [organizationId |-> "org_cursor", spaceId |-> Undefined],
       NoKeys, NoKeys>>,
     <<NoKeys, [organizationId |-> Undefined, spaceId |-> "space_cursor"],
       [organizationId |-> "org_rules", spaceId |-> "space_rules"], NoKeys>>}

\* README.md:317-333: the value of a field in the first file, in the
\* documented order, that carries a recognizable key for it
FirstLocalValue(files, field) ==
    IF \E i \in 1..Len(files) : files[i][field] # Undefined
    THEN files[CHOOSE i \in 1..Len(files) :
                  /\ files[i][field] # Undefined
                  /\ \A j \in 1..(i - 1) : files[j][field] = Undefined][field]
    ELSE Undefined

NoClient == [constructed |-> FALSE, apiToken |-> Undefined,
             organizationId |-> Undefined, defaultSpaceId |-> Undefined]

NoConfig == [organizationId |-> Undefined, spaceId |-> Undefined]

-----------------------------------------------------------------------------
(* Logging *)

\* index.ts:17-28: a notifications/message JSON-RPC notification on stdout
sendLogMessage(out, level, message) ==
    Append(out, [method |-> "notifications/message", level |-> level,
                 logger |-> "gitbook-mcp", data |-> message])

RECURSIVE sendLogMessages(_, _, _)
sendLogMessages(out, level, messages) ==
    IF messages = <<>> THEN out
    ELSE sendLogMessages(sendLogMessage(out, level, Head(messages)), level,
                         Tail(messages))

-----------------------------------------------------------------------------
(* Env file loading, index.ts:97-138 *)

\* the assignments of the file not yet in process.env at resolution time
ApplyEnvFileTooLate(e, file) == e

\* dotenv config({path, override: true}): every variable the file assigns
\* replaces the value in process.env
ApplyEnvFile(e, file) ==
    [n \in EnvVarNames |->
        IF file.vars[n] # Undefined THEN file.vars[n] ELSE e[n]]

\* index of the file the loop loads (the first that exists and loads without
\* error), or 0 when the loop runs to its end
LoadedEnvFile(files) ==
    IF \E i \in 1..Len(files) : files[i].exists /\ ~files[i].error
    THEN CHOOSE i \in 1..Len(files) :
            /\ files[i].exists /\ ~files[i].error
            /\ \A j \in 1..(i - 1) : ~(files[j].exists /\ ~files[j].error)
    ELSE 0

RECURSIVE EnvLoopOutput(_, _, _, _)
\* what the loop writes for files i..Len(files): [out, err]
EnvLoopOutput(files, i, dbg, io) ==
    IF i > Len(files) THEN io
    ELSE IF files[i].exists
    THEN IF files[i].error
         THEN EnvLoopOutput(files, i + 1, dbg,
                [io EXCEPT !.out = sendLogMessage(@, "warn",
                    "Warning: Error loading " \o envFiles[i])])
         ELSE [io EXCEPT !.out = sendLogMessage(@, "info",
                    "Loaded environment from: " \o envFiles[i])]
    ELSE EnvLoopOutput(files, i + 1, dbg,
            IF Truthy(dbg)
            THEN [io EXCEPT !.err = Append(@, "File not found: " \o envFiles[i])]
            ELSE io)

LoadEnvFiles ==
    /\ pc = "load_env"
    /\ LET dbg == env["DEBUG"]
           k == LoadedEnvFile(envFileState)
           io0 == [out |-> stdout,
                   err |-> IF Truthy(dbg)
                           THEN stderr \o <<"Debug: Working directory",
                                            "Debug: Script directory",
                                            "Debug: Project root">>
                           ELSE stderr]
           io1 == EnvLoopOutput(envFileState, 1, dbg, io0)
       IN /\ DEBUG' = dbg
          /\ env' = IF k = 0 THEN env ELSE ApplyEnvFile(env, envFileState[k])
          /\ envLoaded' = (k # 0)
          /\ stdout' = IF k = 0
                       THEN sendLogMessage(io1.out, "warn",
                                "No environment files found")
                       ELSE io1.out
          /\ stderr' = io1.err
    /\ pc' = "init_client"
    /\ UNCHANGED <<argv, envFileState, localFiles, apiToken, resolvedConfig,
                   gitbookClient, resources, exitCode, call,
                   concurrent>>

-----------------------------------------------------------------------------
(* Configuration resolution and client construction, index.ts:69-95, 487-556 *)

\* resolveConfiguration with the two sources of each field swapped
resolveConfigurationEnvFirst(cli, e) ==
    [organizationId |-> Or(e["GITBOOK_ORGANIZATION_ID"], cli.organizationId),
     spaceId |-> Or(e["GITBOOK_SPACE_ID"], cli.spaceId)]

\* resolveConfiguration with the environment fallback left out
resolveConfigurationCliOnly(cli, e) ==
    [organizationId |-> cli.organizationId, spaceId |-> cli.spaceId]

\* index.ts:70-95 (the values; the DEBUG lines are ConfigurationDebugLines)
resolveConfiguration(cli, e) ==
    [organizationId |-> Or(cli.organizationId, e["GITBOOK_ORGANIZATION_ID"]),
     spaceId |-> Or(cli.spaceId, e["GITBOOK_SPACE_ID"])]

\* index.ts:87-92
ConfigurationDebugLines(dbg) ==
    IF Truthy(dbg)
    THEN <<"Debug: Configuration sources:", "  Environment:",
           "  CLI arguments:", "  Final resolved:">>
    ELSE <<>>

\* index.ts:494-506
MissingTokenMessages ==
    <<"GITBOOK_API_TOKEN environment variable is required",
      "Please set your GitBook API token in your .env file",
      "Example: GITBOOK_API_TOKEN=your_token_here",
      "Get your token from: https://app.gitbook.com/account/developer">>

\* index.ts:508-548
ConfigurationSummary(cli, cfg) ==
    <<"Configuration Summary:">>
    \o (IF Truthy(cfg.organizationId)
        THEN <<"Organization ID: " \o cfg.organizationId \o " (from "
               \o (IF Truthy(cli.organizationId) THEN "CLI argument"
                   ELSE "environment variable") \o ")">>
        ELSE <<"No Organization ID configured",
               "   Use --organization-id CLI argument",
               "   Add organization-id to .github/copilot-instructions.md",
               "   Set GITBOOK_ORGANIZATION_ID environment variable",
               "   Use list_organizations tool to find your org ID">>)
    \o (IF Truthy(cfg.spaceId)
        THEN <<"Default Space ID: " \o cfg.spaceId \o " (from "
               \o (IF Truthy(cli.spaceId) THEN "CLI argument"
                   ELSE "environment variable") \o ")">>
        ELSE <<"No default Space ID configured",
               "   Use --space-id CLI argument",
               "   Add space-id to .github/copilot-instructions.md",
               "   Set GITBOOK_SPACE_ID environment variable">>)

\* the token check left out
TokenMissingNever(token) == FALSE

\* the token check testing only for undefined
TokenMissingUndefinedOnly(token) == token = Undefined

\* index.ts:493: !apiToken
TokenMissing(token) == Falsy(token)

\* index.ts:300-310
GitBookAPIClient(token, options) ==
    [constructed |-> TRUE, apiToken |-> token,
     organizationId |-> options.organizationId,
     defaultSpaceId |-> options.defaultSpaceId]

\* the default-space resource registered unconditionally
RegisteredResourcesAlways(defaultSpaceId) ==
    {"organizations", "collections", "default-space"}

\* index.ts:953-1014
RegisteredResources(defaultSpaceId) ==
    {"organizations", "collections"}
    \cup (IF Truthy(defaultSpaceId) THEN {"default-space"} ELSE {})

\* index.ts:487-556 and the registrations that follow
InitializeClient ==
    /\ pc = "init_client"
    /\ LET token == env["GITBOOK_API_TOKEN"]
           cfg == resolveConfiguration(argv, env)
       IN /\ apiToken' = token
          /\ resolvedConfig' = cfg
          /\ stderr' = stderr \o ConfigurationDebugLines(DEBUG)
          /\ IF TokenMissing(token)
             THEN /\ stdout' = sendLogMessages(
                                 sendLogMessages(stdout, "error",
                                                 MissingTokenMessages),
                                 "info", ConfigurationSummary(argv, cfg))
                  /\ exitCode' = 1
                  /\ pc' = "exited"
                  /\ UNCHANGED <<gitbookClient, resources>>
             ELSE /\ gitbookClient' =
                        GitBookAPIClient(token,
                            [organizationId |-> cfg.organizationId,
                             defaultSpaceId |-> cfg.spaceId])
                  /\ resources' = RegisteredResources(cfg.spaceId)
                  /\ pc' = "main"
                  /\ UNCHANGED <<stdout, exitCode>>
    /\ UNCHANGED <<argv, env, envFileState, localFiles, DEBUG, envLoaded, call,
                   concurrent>>

\* index.ts:1333-1337: the transport connects
Main ==
    /\ pc = "main"
    /\ stdout' = sendLogMessage(stdout, "info",
                                "GitBook MCP server running on stdio")
    /\ pc' = "running"
    /\ UNCHANGED <<argv, env, envFileState, localFiles, DEBUG, envLoaded,
                   apiToken, resolvedConfig, gitbookClient, resources, stderr,
                   exitCode, call, concurrent>>

\* index.ts:1339-1342: server.connect rejects
MainFailed ==
    /\ pc = "main"
    /\ stdout' = sendLogMessage(stdout, "error", "Fatal error: connect")
    /\ exitCode' = 1
    /\ pc' = "exited"
    /\ UNCHANGED <<argv, env, envFileState, localFiles, DEBUG, envLoaded,
                   apiToken, resolvedConfig, gitbookClient, resources, stderr,
                   call, concurrent>>

-----------------------------------------------------------------------------
(* JSON values.  Every value is a record of the same shape: t is the kind, *)
(* s the text of a string or number, a the elements of an array, o the     *)
(* properties of an object in insertion order.                             *)

JUndefined == [t |-> "undefined", s |-> "", a |-> <<>>, o |-> <<>>]
JNull == [t |-> "null", s |-> "", a |-> <<>>, o |-> <<>>]
JStr(s) == [t |-> "string", s |-> s, a |-> <<>>, o |-> <<>>]
JNum(n) == [t |-> "number", s |-> ToString(n), a |-> <<>>, o |-> <<>>]
JArr(elements) == [t |-> "array", s |-> "", a |-> elements, o |-> <<>>]
JObj(properties) == [t |-> "object", s |-> "", a |-> <<>>, o |-> properties]
Prop(k, v) == [k |-> k, v |-> v]

\* v.key, for v neither null nor undefined (those throw a TypeError)
Get(v, key) ==
    IF v.t = "object" /\ \E i \in 1..Len(v.o) : v.o[i].k = key
    THEN v.o[CHOOSE i \in 1..Len(v.o) :
                /\ v.o[i].k = key
                /\ \A j \in (i + 1)..Len(v.o) : v.o[j].k # key].v
    ELSE JUndefined

Nullish(v) == v.t \in {"undefined", "null"}

\* !v
JFalsy(v) ==
    \/ Nullish(v)
    \/ v.t = "string" /\ v.s = ""
    \/ v.t = "number" /\ v.s = "0"

RECURSIVE JoinStrings(_, _)
JoinStrings(parts, separator) ==
    IF parts = <<>> THEN ""
    ELSE IF Len(parts) = 1 THEN parts[1]
    ELSE parts[1] \o separator \o JoinStrings(Tail(parts), separator)

Quote(s) == "\"" \o s \o "\""

RECURSIVE Serialize(_, _, _)
\* ECMAScript SerializeJSONProperty with the given gap at the given indent;
\* the result is a string, or Undefined for a value JSON cannot represent
Serialize(v, gap, indent) ==
    LET inner == indent \o gap
        Wrap(open, parts, close) ==
            IF parts = <<>> THEN open \o close
            ELSE IF gap = "" THEN open \o JoinStrings(parts, ",") \o close
            ELSE open \o "\n" \o inner
                 \o JoinStrings(parts, ",\n" \o inner)
                 \o "\n" \o indent \o close
        Element(i) ==
            LET str == Serialize(v.a[i], gap, inner)
            IN IF str = Undefined THEN "null" ELSE str
        Defined == SelectSeq(v.o, LAMBDA p : Serialize(p.v, gap, inner) # Undefined)
        Member(i) ==
            Quote(Defined[i].k) \o (IF gap = "" THEN ":" ELSE ": ")
            \o Serialize(Defined[i].v, gap, inner)
    IN CASE v.t = "undefined" -> Undefined
         [] v.t = "null" -> "null"
         [] v.t = "string" -> Quote(v.s)
         [] v.t = "number" -> v.s
         [] v.t = "array" ->
                Wrap("[", [i \in 1..Len(v.a) |-> Element(i)], "]")
         [] OTHER ->
                Wrap("{", [i \in 1..Len(Defined) |-> Member(i)], "}")

\* JSON.stringify(v, null, 2)
JSONStringifyPretty(v) == Serialize(v, "  ", "")

\* JSON.stringify(v): the text of a body on the wire
JSONStringify(v) == Serialize(v, "", "")

-----------------------------------------------------------------------------
(* The upstream API: the JSON documents it may send and its responses *)

ErrorBody(code, message) ==
    JObj(<<Prop("error", JObj(<<Prop("code", JNum(code)),
                                Prop("message", JStr(message))>>))>>)

JsonUniverse ==
    {JNull,
     JObj(<<>>),
     JObj(<<Prop("id", JStr("x1")), Prop("title", JStr("Docs"))>>),
     JObj(<<Prop("items", JArr(<<>>))>>),
     JObj(<<Prop("items", JArr(<<JObj(<<Prop("id", JStr("o1")),
                                        Prop("title", JStr("Acme"))>>),
                                 JObj(<<Prop("id", JStr("o2")),
                                        Prop("title", JStr("Beta"))>>)>>)),
            Prop("next", JNull)>>),
     JObj(<<Prop("pages", JArr(<<JStr("p1"), JStr("p2")>>))>>),
     ErrorBody(404, "Space not found"),
     ErrorBody(500, ""),
     JObj(<<Prop("error", JObj(<<Prop("code", JNum(404))>>))>>),
     JObj(<<Prop("error", JNull)>>),
     JObj(<<Prop("error", JObj(<<Prop("message", JArr(<<>>))>>))>>)}

NotJsonBodies == {"", "<html>Bad Gateway</html>"}

\* the text on the wire of each document
WireText == [v \in JsonUniverse |-> JSONStringify(v)]

Bodies == {WireText[v] : v \in JsonUniverse} \cup NotJsonBodies

StatusLines ==
    {[status |-> 200, statusText |-> "OK"],
     [status |-> 404, statusText |-> "Not Found"],
     [status |-> 500, statusText |-> ""]}

\* fetch resolves with one of Responses or rejects (NetworkError)
Responses ==
    {[rejected |-> FALSE, status |-> l.status, statusText |-> l.statusText,
      body |-> b] : l \in StatusLines, b \in Bodies}

NetworkError == [rejected |-> TRUE, status |-> 0, statusText |-> "", body |-> ""]

NoResponse == [rejected |-> FALSE, status |-> 0, statusText |-> "", body |-> ""]

\* response.ok
ResponseOk(response) == response.status >= 200 /\ response.status <= 299

\* response.json(): the document the body is the text of, or a SyntaxError
ResponseJson(response) ==
    IF \E v \in JsonUniverse : WireText[v] = response.body
    THEN [ok |-> TRUE,
          value |-> CHOOSE v \in JsonUniverse : WireText[v] = response.body]
    ELSE [ok |-> FALSE, value |-> JUndefined]

-----------------------------------------------------------------------------
(* GitBookAPIClient, index.ts:294-485 *)

\* index.ts:327
NoSpaceMessage ==
    "No space ID provided and no default space configured. Please provide spaceId, use --space-id CLI argument, or add space-id to your configuration file."

\* index.ts:337
NoOrganizationMessage ==
    "No organization ID provided and no default organization configured. Please provide organizationId, use --organization-id CLI argument, or add organization-id to your configuration file."

\* index.ts:391
SpacesOrganizationMessage ==
    "Organization ID is required to list spaces. Provide it via parameter or environment variable."

\* index.ts:466
CollectionsOrganizationMessage ==
    "Organization ID is required to list collections. Provide it via parameter or environment variable."

\* the result of a synchronous helper: a value, or a thrown Error
Returned(value) == [threw |-> FALSE, message |-> "", value |-> value]
Thrown(message) == [threw |-> TRUE, message |-> message, value |-> Undefined]

\* index.ts:313-320
getDefaultSpaceId(client) == client.defaultSpaceId
getDefaultOrganizationId(client) == client.organizationId

\* resolveSpaceId falling back only for an undefined argument
resolveSpaceIdUndefinedOnly(client, explicitSpaceId) ==
    LET effectiveSpaceId == IF explicitSpaceId # Undefined THEN explicitSpaceId
                            ELSE getDefaultSpaceId(client)
    IN IF effectiveSpaceId = Undefined THEN Thrown(NoSpaceMessage)
       ELSE Returned(effectiveSpaceId)

\* resolveSpaceId preferring the configured default
resolveSpaceIdDefaultFirst(client, explicitSpaceId) ==
    LET effectiveSpaceId == Or(getDefaultSpaceId(client), explicitSpaceId)
    IN IF Falsy(effectiveSpaceId) THEN Thrown(NoSpaceMessage)
       ELSE Returned(effectiveSpaceId)

\* index.ts:323-331
resolveSpaceId(client, explicitSpaceId) ==
    LET effectiveSpaceId == Or(explicitSpaceId, getDefaultSpaceId(client))
    IN IF Falsy(effectiveSpaceId) THEN Thrown(NoSpaceMessage)
       ELSE Returned(effectiveSpaceId)

\* resolveOrganizationId failing whenever no default is configured
resolveOrganizationIdRequiresDefault(client, explicitOrgId) ==
    IF Falsy(getDefaultOrganizationId(client)) THEN Thrown(NoOrganizationMessage)
    ELSE Returned(Or(explicitOrgId, getDefaultOrganizationId(client)))

\* index.ts:333-341
resolveOrganizationId(client, explicitOrgId) ==
    LET effectiveOrgId == Or(explicitOrgId, getDefaultOrganizationId(client))
    IN IF Falsy(effectiveOrgId) THEN Thrown(NoOrganizationMessage)
       ELSE Returned(effectiveOrgId)

HeaderNames == {"Authorization", "Content-Type", "Accept"}

NoHeaders == [h \in HeaderNames |-> Undefined]

NoOptions == [method |-> Undefined, body |-> JUndefined, headers |-> NoHeaders]

NoRequest == [url |-> "", method |-> "", headers |-> NoHeaders,
              body |-> Undefined]

\* index.ts:295
baseURL == "https://api.gitbook.com/v1"

\* makeRequest defaulting to POST with an empty JSON body
makeRequestDefaultPost(client, endpoint, options) ==
    [url |-> baseURL \o endpoint,
     method |-> Or(options.method, "POST"),
     headers |-> [h \in HeaderNames |->
                    IF options.headers[h] # Undefined THEN options.headers[h]
                    ELSE CASE h = "Authorization" ->
                                "Bearer " \o Interpolate(client.apiToken)
                           [] h = "Content-Type" -> "application/json"
                           [] OTHER -> Undefined],
     body |-> IF JFalsy(options.body) THEN "{}"
              ELSE JSONStringify(options.body)]

\* makeRequest sending only the headers of its options
makeRequestOptionHeadersOnly(client, endpoint, options) ==
    [url |-> baseURL \o endpoint,
     method |-> Or(options.method, "GET"),
     headers |-> options.headers,
     body |-> IF JFalsy(options.body) THEN Undefined
              ELSE JSONStringify(options.body)]

\* index.ts:351-362: the arguments of fetch
makeRequest(client, endpoint, options) ==
    [url |-> baseURL \o endpoint,
     method |-> Or(options.method, "GET"),
     headers |-> [h \in HeaderNames |->
                    IF options.headers[h] # Undefined THEN options.headers[h]
                    ELSE CASE h = "Authorization" ->
                                "Bearer " \o Interpolate(client.apiToken)
                           [] h = "Content-Type" -> "application/json"
                           [] OTHER -> Undefined],
     body |-> IF JFalsy(options.body) THEN Undefined
              ELSE JSONStringify(options.body)]

\* String(v) for the message of new Error(v)
ToJSString(v) ==
    CASE v.t \in {"string", "number"} -> v.s
      [] v.t = "array" -> JoinStrings([i \in 1..Len(v.a) |-> v.a[i].s], ",")
      [] OTHER -> "[object Object]"

\* the status line without its status text
StatusMessageWithoutText(response) == "HTTP " \o ToString(response.status)

\* index.ts:365
StatusMessage(response) ==
    "HTTP " \o ToString(response.status) \o ": " \o response.statusText

\* the thrown message without the fallback to the status line
ErrorMessageWithoutFallback(response) ==
    LET parsed == ResponseJson(response)
        errorData == parsed.value
        error == Get(errorData, "error")
        message == IF Nullish(error) THEN JUndefined ELSE Get(error, "message")
    IN IF ~parsed.ok \/ Nullish(errorData) THEN StatusMessage(response)
       ELSE IF Nullish(message) THEN "undefined"
       ELSE ToJSString(message)

\* the thrown message ignoring the body of the response
ErrorMessageStatusOnly(response) == StatusMessage(response)

\* index.ts:364-373: the message of the Error thrown for a non-ok response
ErrorMessage(response) ==
    LET errorMessage == StatusMessage(response)
        parsed == ResponseJson(response)
        errorData == parsed.value
        error == Get(errorData, "error")
        message == IF Nullish(error) THEN JUndefined ELSE Get(error, "message")
    IN IF ~parsed.ok \/ Nullish(errorData) THEN errorMessage
       ELSE IF JFalsy(message) THEN errorMessage
       ELSE ToJSString(message)

JReturned(value) == [threw |-> FALSE, message |-> "", value |-> value]
JThrown(message) == [threw |-> TRUE, message |-> message, value |-> JUndefined]

\* makeRequest returning the parsed body whatever the status
makeRequestResultIgnoringStatus(response) ==
    IF response.rejected THEN JThrown("fetch failed")
    ELSE LET parsed == ResponseJson(response)
         IN IF parsed.ok THEN JReturned(parsed.value)
            ELSE JThrown("Unexpected token in JSON")

\* makeRequest unwrapping a data envelope of the body
makeRequestResultUnwrapped(response) ==
    IF response.rejected THEN JThrown("fetch failed")
    ELSE IF ~ResponseOk(response) THEN JThrown(ErrorMessage(response))
    ELSE LET parsed == ResponseJson(response)
         IN IF parsed.ok THEN JReturned(Get(parsed.value, "data"))
            ELSE JThrown("Unexpected token in JSON")

\* index.ts:358-375: what makeRequest settles to once fetch has settled
makeRequestResult(response) ==
    IF response.rejected THEN JThrown("fetch failed")
    ELSE IF ~ResponseOk(response) THEN JThrown(ErrorMessage(response))
    ELSE LET parsed == ResponseJson(response)
         IN IF parsed.ok THEN JReturned(parsed.value)
            ELSE JThrown("Unexpected token in JSON")

\* a handler or client method up to its first await: it throws, it awaits the
\* request to an endpoint and then returns the body ("whole") or its items,
\* or (a prompt) it returns its message text without any request
Throw(message) == [kind |-> "throw", message |-> message, endpoint |-> "",
                   returns |-> "whole", parts |-> <<>>]
Await(endpoint, returns) == [kind |-> "await", message |-> "",
                             endpoint |-> endpoint, returns |-> returns,
                             parts |-> <<>>]
Reply(parts) == [kind |-> "reply", message |-> "", endpoint |-> "",
                 returns |-> "whole", parts |-> parts]

\* index.ts:379-384
getOrganizations(client) == Await("/orgs", "items")

\* getSpaces returning the whole body instead of its items
getSpacesWholeBody(client, organizationId) ==
    LET orgId == Or(organizationId, client.organizationId)
    IN IF Falsy(orgId) THEN Throw(SpacesOrganizationMessage)
       ELSE Await("/orgs/" \o orgId \o "/spaces", "whole")

\* index.ts:387-398
getSpaces(client, organizationId) ==
    LET orgId == Or(organizationId, client.organizationId)
    IN IF Falsy(orgId) THEN Throw(SpacesOrganizationMessage)
       ELSE Await("/orgs/" \o orgId \o "/spaces", "items")

\* index.ts:400-402
getSpace(client, spaceId) == Await("/spaces/" \o Interpolate(spaceId), "whole")

\* index.ts:404-406
getSpaceContent(client, spaceId) ==
    Await("/spaces/" \o Interpolate(spaceId) \o "/content", "whole")

\* application/x-www-form-urlencoded serialisation of a character sequence
\* (URLSearchParams.toString)
RECURSIVE FormEncode(_)
FormEncode(chars) ==
    IF chars = <<>> THEN ""
    ELSE (CASE Head(chars) = " " -> "+"
            [] Head(chars) = "/" -> "%2F"
            [] Head(chars) = "&" -> "%26"
            [] Head(chars) = "=" -> "%3D"
            [] OTHER -> Head(chars)) \o FormEncode(Tail(chars))

\* encodeURIComponent of a character sequence
RECURSIVE encodeURIComponent(_)
encodeURIComponent(chars) ==
    IF chars = <<>> THEN ""
    ELSE (CASE Head(chars) = " " -> "%20"
            [] Head(chars) = "/" -> "%2F"
            [] Head(chars) = "&" -> "%26"
            [] Head(chars) = "=" -> "%3D"
            [] Head(chars) = "?" -> "%3F"
            [] OTHER -> Head(chars)) \o encodeURIComponent(Tail(chars))

NoPageOptions == [given |-> FALSE, format |-> Undefined,
                  metadata |-> Undefined, computed |-> Undefined]

\* PageParams appending metadata and computed only when they are true
PageParamsTruthyOnly(options) ==
    (IF options.given /\ Truthy(options.format)
     THEN <<"format=" \o options.format>> ELSE <<>>)
    \o (IF options.given /\ options.metadata = "true"
        THEN <<"metadata=" \o options.metadata>> ELSE <<>>)
    \o (IF options.given /\ options.computed = "true"
        THEN <<"computed=" \o options.computed>> ELSE <<>>)

\* index.ts:419-425: the URLSearchParams of getPageContent, as name=value texts
PageParams(options) ==
    (IF options.given /\ Truthy(options.format)
     THEN <<"format=" \o options.format>> ELSE <<>>)
    \o (IF options.given /\ options.metadata # Undefined
        THEN <<"metadata=" \o options.metadata>> ELSE <<>>)
    \o (IF options.given /\ options.computed # Undefined
        THEN <<"computed=" \o options.computed>> ELSE <<>>)

\* index.ts:409-432
getPageContent(client, spaceId, pageId, options) ==
    LET endpoint == "/spaces/" \o Interpolate(spaceId) \o "/content/page/"
                    \o Interpolate(pageId)
        params == JoinStrings(PageParams(options), "&")
    IN Await(IF params # "" THEN endpoint \o "?" \o params ELSE endpoint,
             "whole")

\* index.ts:434-439
getPageByPath(client, spaceId, pagePath) ==
    Await("/spaces/" \o Interpolate(spaceId) \o "/content/path/"
          \o encodeURIComponent(pagePath), "whole")

\* index.ts:442-447
searchContent(client, spaceId, query) ==
    Await("/spaces/" \o Interpolate(spaceId) \o "/search?query="
          \o FormEncode(query), "whole")

\* index.ts:450-455
getSpaceFiles(client, spaceId) ==
    Await("/spaces/" \o Interpolate(spaceId) \o "/files", "items")

\* index.ts:457-459
getFile(client, spaceId, fileId) ==
    Await("/spaces/" \o Interpolate(spaceId) \o "/files/"
          \o Interpolate(fileId), "whole")

\* index.ts:462-473
getCollections(client, organizationId) ==
    LET orgId == Or(organizationId, client.organizationId)
    IN IF Falsy(orgId) THEN Throw(CollectionsOrganizationMessage)
       ELSE Await("/orgs/" \o orgId \o "/collections", "items")

\* index.ts:475-477
getCollection(client, collectionId) ==
    Await("/collections/" \o Interpolate(collectionId), "whole")

\* index.ts:479-484
getCollectionSpaces(client, collectionId) ==
    Await("/collections/" \o Interpolate(collectionId) \o "/spaces", "items")

-----------------------------------------------------------------------------
(* Tools, resources and prompts, index.ts:573-1330 *)

Tools == {"list_organizations", "list_spaces", "get_space",
          "get_space_content", "get_page_content", "get_page_by_path",
          "search_content", "get_space_files", "get_file", "list_collections",
          "get_collection", "get_collection_spaces"}

ResourceReads == {"default-space", "organizations", "collections"}

\* the list callback of the collections resource template
ResourceLists == {"collections.list"}

Prompts == {"fetch_documentation", "analyze_content_gaps", "content_audit",
            "documentation_summary", "content_optimization",
            "troubleshooting_assistant"}

Operations == Tools \cup ResourceReads \cup ResourceLists \cup Prompts

NoArgs == [organizationId |-> Undefined, spaceId |-> Undefined,
           pageId |-> Undefined, pagePath |-> <<>>, query |-> <<>>,
           fileId |-> Undefined, collectionId |-> Undefined,
           format |-> Undefined, metadata |-> Undefined,
           computed |-> Undefined, detail |-> Undefined]

ArgOrgValues == {Undefined, "", "org_arg"}
ArgSpaceValues == {Undefined, "", "space_arg"}
RequiredIdValues(id) == {"", id}
PagePathValues == {<<"i", "n", "t", "r", "o">>, <<"a", "/", "b", " ", "c">>}
QueryValues == {<<"a", "p", "i">>, <<"a", " ", "b", "&", "c">>}

\* the first line of each prompt's text, the label and the default of its
\* second argument (Undefined: the argument is required)
PromptIntro(op) ==
    CASE op = "fetch_documentation" ->
            "I need to fetch and analyze GitBook documentation content."
      [] op = "analyze_content_gaps" ->
            "I need to identify gaps and missing content in GitBook documentation."
      [] op = "content_audit" ->
            "I need to perform a comprehensive quality audit of GitBook documentation."
      [] op = "documentation_summary" ->
            "I need to generate a comprehensive summary of GitBook documentation."
      [] op = "content_optimization" ->
            "I need to optimize GitBook documentation content."
      [] OTHER ->
            "I need help troubleshooting a GitBook issue."

PromptLabel(op) ==
    CASE op = "fetch_documentation" -> "Topic"
      [] op = "analyze_content_gaps" -> "Comparison Source"
      [] op = "content_audit" -> "Audit Criteria"
      [] op = "documentation_summary" -> "Summary Type"
      [] op = "content_optimization" -> "Optimization Type"
      [] OTHER -> "Issue Type"

PromptDefault(op) ==
    CASE op = "analyze_content_gaps" -> "internal analysis"
      [] op = "content_audit" -> "general quality and consistency"
      [] op = "documentation_summary" -> "overview"
      [] OTHER -> Undefined

\* the arguments an operation may be invoked with (its zod schema)
ArgsFor(op) ==
    CASE op \in {"list_spaces", "list_collections"} ->
            {[NoArgs EXCEPT !.organizationId = o] : o \in ArgOrgValues}
      [] op = "collections" ->
            {[NoArgs EXCEPT !.organizationId = o] : o \in {Undefined, "org_arg"}}
      [] op = "get_space" ->
            {[NoArgs EXCEPT !.spaceId = x] : x \in RequiredIdValues("space_arg")}
      [] op \in {"get_space_content", "get_space_files"} ->
            {[NoArgs EXCEPT !.spaceId = x] : x \in ArgSpaceValues}
      [] op = "get_page_content" ->
            {[NoArgs EXCEPT !.spaceId = x, !.pageId = "page1", !.format = f,
                            !.metadata = m, !.computed = c] :
                x \in ArgSpaceValues, f \in {Undefined, "markdown"},
                m \in {Undefined, "true", "false"}, c \in {Undefined, "false"}}
      [] op = "get_page_by_path" ->
            {[NoArgs EXCEPT !.spaceId = x, !.pagePath = q] :
                x \in ArgSpaceValues, q \in PagePathValues}
      [] op = "search_content" ->
            {[NoArgs EXCEPT !.spaceId = x, !.query = q] :
                x \in ArgSpaceValues, q \in QueryValues}
      [] op = "get_file" ->
            {[NoArgs EXCEPT !.spaceId = x, !.fileId = "file1"] :
                x \in ArgSpaceValues}
      [] op \in {"get_collection", "get_collection_spaces"} ->
            {[NoArgs EXCEPT !.collectionId = x] : x \in RequiredIdValues("col1")}
      [] op \in Prompts ->
            {[NoArgs EXCEPT !.spaceId = x, !.detail = d] :
                x \in ArgSpaceValues,
                d \in IF PromptDefault(op) = Undefined THEN {"billing"}
                      ELSE {Undefined, "billing"}}
      [] OTHER -> {NoArgs}

\* a handler calling the client method before looking at the resolution
AfterResolveRequestFirst(r, plan) == plan

\* a handler that resolves its identifier first (index.ts:668-669 and the
\* like): the error of the resolution, or the plan of the client method
AfterResolve(r, plan) == IF r.threw THEN Throw(r.message) ELSE plan

\* index.ts:714-723: the options get_page_content hands to getPageContent
PageOptions(args) ==
    IF args.format = Undefined /\ args.metadata = Undefined
       /\ args.computed = Undefined
    THEN NoPageOptions
    ELSE [given |-> TRUE, format |-> args.format, metadata |-> args.metadata,
          computed |-> args.computed]

\* a prompt interpolating its spaceId argument without resolving it
PromptHandlerExplicitOnly(client, op, args) ==
    Reply(<<PromptIntro(op), "\n\n**Space ID**: ", Interpolate(args.spaceId),
            "\n**", PromptLabel(op), "**: ",
            IF args.detail = Undefined THEN PromptDefault(op) ELSE args.detail,
            "\n\nPlease help me:">>)

\* index.ts:1037-1074 and the five prompts after it: the pieces of promptText
PromptHandler(client, op, args) ==
    LET r == resolveSpaceId(client, args.spaceId)
    IN IF r.threw THEN Throw(r.message)
       ELSE Reply(<<PromptIntro(op), "\n\n**Space ID**: ", r.value, "\n**",
                    PromptLabel(op), "**: ",
                    IF args.detail = Undefined THEN PromptDefault(op)
                    ELSE args.detail,
                    "\n\nPlease help me:">>)

\* the handler registered for op, run up to its first await
Handler(client, defaultSpaceId, op, args) ==
    LET space == resolveSpaceId(client, args.spaceId)
        org == resolveOrganizationId(client, args.organizationId)
    IN CASE op = "list_organizations" -> getOrganizations(client)
         [] op = "list_spaces" -> getSpaces(client, args.organizationId)
         [] op = "get_space" -> getSpace(client, args.spaceId)
         [] op = "get_space_content" ->
               AfterResolve(space, getSpaceContent(client, space.value))
         [] op = "get_page_content" ->
               AfterResolve(space, getPageContent(client, space.value,
                                                  args.pageId, PageOptions(args)))
         [] op = "get_page_by_path" ->
               AfterResolve(space, getPageByPath(client, space.value,
                                                 args.pagePath))
         [] op = "search_content" ->
               AfterResolve(space, searchContent(client, space.value,
                                                 args.query))
         [] op = "get_space_files" ->
               AfterResolve(space, getSpaceFiles(client, space.value))
         [] op = "get_file" ->
               AfterResolve(space, getFile(client, space.value, args.fileId))
         [] op = "list_collections" ->
               AfterResolve(org, getCollections(client, org.value))
         [] op = "get_collection" -> getCollection(client, args.collectionId)
         [] op = "get_collection_spaces" ->
               getCollectionSpaces(client, args.collectionId)
         [] op = "default-space" -> getSpaceContent(client, defaultSpaceId)
         [] op = "organizations" -> getOrganizations(client)
         [] op = "collections" -> getCollections(client, args.organizationId)
         [] op = "collections.list" -> getOrganizations(client)
         [] OTHER -> PromptHandler(client, op, args)

\* what the host may invoke: every tool and prompt, and the resources that
\* were registered
Registered(op) ==
    \/ op \in Tools \cup Prompts
    \/ op \in ResourceReads /\ op \in resources
    \/ op \in ResourceLists /\ "collections" \in resources

NoOutcome == [threw |-> FALSE, message |-> "", shape |-> "none",
              text |-> Undefined, parts |-> <<>>]

OutcomeShape(op) ==
    CASE op \in Tools -> "content"
      [] op \in ResourceReads -> "contents"
      [] op \in ResourceLists -> "resources"
      [] OTHER -> "messages"

Failed(message) == [NoOutcome EXCEPT !.threw = TRUE, !.message = message]

IdleCall == [state |-> "none", op |-> "", args |-> NoArgs, plan |-> Throw(""),
             options |-> NoOptions, request |-> NoRequest, requests |-> 0, response |-> NoResponse,
             returned |-> JUndefined, outcome |-> NoOutcome]

\* organizations.map(...) of the list callback, index.ts:986-996
ListedResources(organizations) ==
    JArr([i \in 1..Len(organizations.a) |->
            JObj(<<Prop("uri", JStr("gitbook://collections/"
                                     \o ToJSString(Get(organizations.a[i], "id"))))>>)])

\* the rest of a handler once makeRequest has settled with result r
Complete(op, plan, r) ==
    IF r.threw THEN Failed(r.message)
    ELSE IF plan.returns = "items" /\ Nullish(r.value)
    THEN Failed("TypeError: Cannot read properties of null (reading 'items')")
    ELSE LET value == IF plan.returns = "items" THEN Get(r.value, "items")
                      ELSE r.value
         IN IF op \in ResourceLists
            THEN IF value.t # "array"
                 THEN Failed("TypeError: organizations.map is not a function")
                 ELSE [NoOutcome EXCEPT !.shape = OutcomeShape(op),
                          !.text = JSONStringify(ListedResources(value))]
            ELSE [NoOutcome EXCEPT !.shape = OutcomeShape(op),
                                   !.text = JSONStringifyPretty(value)]

\* a handler run to its first await: it has thrown, it has replied (a
\* prompt), or it has called fetch once and awaits the response
StartedCall(client, defaultSpaceId, op, args) ==
    LET plan == Handler(client, defaultSpaceId, op, args)
        started == [IdleCall EXCEPT !.op = op, !.args = args, !.plan = plan]
    IN CASE plan.kind = "throw" ->
               [started EXCEPT !.state = "done",
                               !.outcome = Failed(plan.message)]
         [] plan.kind = "reply" ->
               [started EXCEPT !.state = "done",
                   !.outcome = [NoOutcome EXCEPT !.shape = OutcomeShape(op),
                                                 !.parts = plan.parts]]
         [] OTHER ->
               [started EXCEPT !.state = "pending",
                   !.request = makeRequest(client, plan.endpoint, NoOptions),
                   !.requests = 1]

\* an awaiting handler run to its end once fetch has settled with response
SettledCall(c, response) ==
    LET r == makeRequestResult(response)
    IN [c EXCEPT !.state = "done", !.response = response,
                 !.returned = r.value,
                 !.outcome = Complete(c.op, c.plan, r)]

\* Invoke storing an explicit spaceId as the client's default
InvokeRememberingSpace(op, args) ==
    /\ pc = "running"
    /\ call.state = "none"
    /\ Registered(op)
    /\ call' = StartedCall(gitbookClient, resolvedConfig.spaceId, op, args)
    /\ gitbookClient' = [gitbookClient EXCEPT
                            !.defaultSpaceId = Or(args.spaceId, @)]
    /\ UNCHANGED <<argv, env, envFileState, localFiles, DEBUG, envLoaded, pc,
                   apiToken, resolvedConfig, resources, stdout, stderr,
                   exitCode, concurrent>>

\* The host invokes an operation: the handler runs to its first await.
Invoke(op, args) ==
    /\ pc = "running"
    /\ call.state = "none"
    /\ Registered(op)
    /\ call' = StartedCall(gitbookClient, resolvedConfig.spaceId, op, args)
    /\ UNCHANGED <<argv, env, envFileState, localFiles, DEBUG, envLoaded, pc,
                   apiToken, resolvedConfig, gitbookClient, resources, stdout,
                   stderr, exitCode, concurrent>>

\* Respond calling fetch a second time after a failed response
RespondRetrying(response) ==
    /\ pc = "running"
    /\ call.state = "pending"
    /\ call' = IF (response.rejected \/ ~ResponseOk(response))
                  /\ call.requests = 1
               THEN [call EXCEPT !.requests = @ + 1]
               ELSE SettledCall(call, response)
    /\ UNCHANGED <<argv, env, envFileState, localFiles, DEBUG, envLoaded, pc,
                   apiToken, resolvedConfig, gitbookClient, resources, stdout,
                   stderr, exitCode, concurrent>>

\* fetch settles and the handler runs to its end
Respond(response) ==
    /\ pc = "running"
    /\ call.state = "pending"
    /\ call' = SettledCall(call, response)
    /\ UNCHANGED <<argv, env, envFileState, localFiles, DEBUG, envLoaded, pc,
                   apiToken, resolvedConfig, gitbookClient, resources, stdout,
                   stderr, exitCode, concurrent>>

\* The handler's result (or error) is handed to the host: the invocation is
\* over and leaves nothing behind.
Deliver ==
    /\ pc = "running"
    /\ call.state = "done"
    /\ call' = IdleCall
    /\ UNCHANGED <<argv, env, envFileState, localFiles, DEBUG, envLoaded, pc,
                   apiToken, resolvedConfig, gitbookClient, resources, stdout,
                   stderr, exitCode, concurrent>>

-----------------------------------------------------------------------------
(* Start-up specification: every combination of the configuration inputs *)

InitState ==
    /\ DEBUG = Undefined
    /\ envLoaded = FALSE
    /\ pc = "load_env"
    /\ apiToken = Undefined
    /\ resolvedConfig = NoConfig
    /\ gitbookClient = NoClient
    /\ resources = {}
    /\ stdout = <<>>
    /\ stderr = <<>>
    /\ exitCode = 0
    /\ call = IdleCall
    /\ concurrent = IdleCall

InitStartup ==
    /\ argv \in [organizationId : CliOrgValues, spaceId : CliSpaceValues]
    /\ \E tok \in EnvTokenValues, org \in EnvOrgValues,
          space \in EnvSpaceValues, dbg \in EnvDebugValues :
          env = [n \in EnvVarNames |->
                   CASE n = "GITBOOK_API_TOKEN" -> tok
                     [] n = "GITBOOK_ORGANIZATION_ID" -> org
                     [] n = "GITBOOK_SPACE_ID" -> space
                     [] OTHER -> dbg]
    /\ envFileState \in {f \in [1..4 -> UNION {EnvFileChoices[i] : i \in 1..4}] :
                            \A i \in 1..4 : f[i] \in EnvFileChoices[i]}
    /\ localFiles \in LocalFileChoices
    /\ InitState

NextStartup ==
    \/ LoadEnvFiles
    \/ InitializeClient
    \/ Main
    \/ MainFailed

SpecStartup == InitStartup /\ [][NextStartup]_vars

-----------------------------------------------------------------------------
(* The server: start-up from a smaller set of inputs, then invocations *)

Init ==
    /\ argv \in [organizationId : {Undefined, "org_cli"},
                 spaceId : {Undefined, "space_cli"}]
    /\ \E tok \in {Undefined, "", "tok_env"}, org \in {Undefined, "org_env"},
          space \in {Undefined, "space_env"} :
          env = [n \in EnvVarNames |->
                   CASE n = "GITBOOK_API_TOKEN" -> tok
                     [] n = "GITBOOK_ORGANIZATION_ID" -> org
                     [] n = "GITBOOK_SPACE_ID" -> space
                     [] OTHER -> Undefined]
    /\ envFileState = [i \in 1..4 |-> MissingFile]
    /\ localFiles \in LocalFileChoices
    /\ InitState

Next ==
    \/ LoadEnvFiles
    \/ InitializeClient
    \/ Main
    \/ MainFailed
    \/ \E op \in Operations : \E args \in ArgsFor(op) : Invoke(op, args)
    \/ \E response \in Responses \cup {NetworkError} : Respond(response)
    \/ Deliver

Spec == Init /\ [][Next]_vars

-----------------------------------------------------------------------------
(* Configuration precedence *)

Resolved == pc \notin {"load_env", "init_client"}

EnvOrganizationId == env["GITBOOK_ORGANIZATION_ID"]
EnvSpaceId == env["GITBOOK_SPACE_ID"]

\* C1 as stated: for organizationId and spaceId independently, whenever a CLI
\* flag value is given for the field, the effective value equals the CLI
\* value, whatever the local-file and environment values are.
C1_CliValueWins ==
    Resolved =>
        /\ argv.organizationId # Undefined
              => resolvedConfig.organizationId = argv.organizationId
        /\ argv.spaceId # Undefined
              => resolvedConfig.spaceId = argv.spaceId

\* C1 amended: whenever a non-empty CLI flag value is given for a field, the
\* effective value of that field equals the CLI value, whatever the local
\* files and the environment hold; the other field is taken from its own
\* sources (with no CLI flag for it, from its environment variable).
C1_NonEmptyCliValueWins ==
    Resolved =>
        /\ Truthy(argv.organizationId)
              => resolvedConfig.organizationId = argv.organizationId
        /\ Truthy(argv.spaceId)
              => resolvedConfig.spaceId = argv.spaceId
        /\ Truthy(argv.organizationId) /\ argv.spaceId = Undefined
              => resolvedConfig.spaceId = EnvSpaceId
        /\ Truthy(argv.spaceId) /\ argv.organizationId = Undefined
              => resolvedConfig.organizationId = EnvOrganizationId

\* --organization-id=org_cli against GITBOOK_ORGANIZATION_ID set by the loaded
\* env file and a local file with an organization-id key, no --space-id
C1_Witness ==
    /\ Resolved
    /\ argv.organizationId = "org_cli"
    /\ EnvOrganizationId = "org_local"
    /\ FirstLocalValue(localFiles, "organizationId") = "org_copilot"
    /\ argv.spaceId = Undefined
    /\ EnvSpaceId = "space_env"
    /\ resolvedConfig = [organizationId |-> "org_cli", spaceId |-> "space_env"]

\* C2: with no CLI flag for a field, the value extracted from the first
\* local configuration file (in the documented search order) that contains a
\* recognizable key is the effective value and wins over the environment
\* variable of that field.
C2_LocalFileWinsOverEnvironment ==
    Resolved =>
        /\ argv.organizationId = Undefined
           /\ FirstLocalValue(localFiles, "organizationId") # Undefined
              => resolvedConfig.organizationId
                    = FirstLocalValue(localFiles, "organizationId")
        /\ argv.spaceId = Undefined
           /\ FirstLocalValue(localFiles, "spaceId") # Undefined
              => resolvedConfig.spaceId = FirstLocalValue(localFiles, "spaceId")

\* C3: resolution never throws (the start-up always gets past it, and the
\* process exits before the client exists only for a missing token); with no
\* CLI flag and no local-file value for a field the effective value is the
\* value of its environment variable, and undefined when that is unset too.
C3_EnvironmentFallbackNeverThrows ==
    /\ pc = "exited" /\ ~gitbookClient.constructed => Falsy(apiToken)
    /\ Resolved =>
        /\ argv.organizationId = Undefined
           /\ FirstLocalValue(localFiles, "organizationId") = Undefined
              => resolvedConfig.organizationId = EnvOrganizationId
        /\ argv.spaceId = Undefined
           /\ FirstLocalValue(localFiles, "spaceId") = Undefined
              => resolvedConfig.spaceId = EnvSpaceId
        /\ argv.organizationId = Undefined /\ EnvOrganizationId = Undefined
              => resolvedConfig.organizationId = Undefined
        /\ argv.spaceId = Undefined /\ EnvSpaceId = Undefined
              => resolvedConfig.spaceId = Undefined

\* no flags, no local keys: the organization from the environment, no space
C3_Witness ==
    /\ Resolved
    /\ argv = [organizationId |-> Undefined, spaceId |-> Undefined]
    /\ localFiles = <<NoKeys, NoKeys, NoKeys, NoKeys>>
    /\ EnvOrganizationId = "org_env"
    /\ EnvSpaceId = Undefined
    /\ resolvedConfig = [organizationId |-> "org_env", spaceId |-> Undefined]
    /\ pc = "running"

-----------------------------------------------------------------------------
(* The API token check *)

TokenRequiredMessage == MissingTokenMessages[1]

\* C10 as stated: if GITBOOK_API_TOKEN is absent after configuration
\* loading, the process terminates with a non-zero exit code and a
\* descriptive message written to stderr.
C10_MissingTokenExitsWithStderrMessage ==
    pc \notin {"load_env", "init_client"} /\ Falsy(env["GITBOOK_API_TOKEN"]) =>
        /\ pc = "exited"
        /\ exitCode # 0
        /\ \E i \in 1..Len(stderr) : stderr[i] = TokenRequiredMessage

\* C10 amended: if GITBOOK_API_TOKEN is absent (unset or empty) after env
\* file loading, the process terminates with exit code 1 before the client
\* is constructed, and the descriptive message is written to stdout as
\* JSON-RPC notifications/message log notifications of level error; it is
\* not written to stderr.
C10_MissingTokenExitsWithLogNotification ==
    pc \notin {"load_env", "init_client"} /\ Falsy(env["GITBOOK_API_TOKEN"]) =>
        /\ pc = "exited"
        /\ exitCode = 1
        /\ ~gitbookClient.constructed
        /\ \E i \in 1..Len(stdout) :
              /\ stdout[i].method = "notifications/message"
              /\ stdout[i].level = "error"
              /\ stdout[i].data = TokenRequiredMessage
        /\ \A i \in 1..Len(stderr) : stderr[i] # TokenRequiredMessage

\* GITBOOK_API_TOKEN is the empty string and DEBUG is set: the debug lines
\* went to stderr, the message about the token to stdout
C10_Witness ==
    /\ pc = "exited"
    /\ env["GITBOOK_API_TOKEN"] = ""
    /\ Truthy(DEBUG)
    /\ stderr # <<>>
    /\ exitCode = 1
    /\ \E i \in 1..Len(stdout) : stdout[i].data = TokenRequiredMessage

-----------------------------------------------------------------------------
(* Error mapping and pass-through of the API client *)

Settled == call.state = "done" /\ call.requests = 1 /\ ~call.response.rejected

FailedUpstream == Settled /\ ~ResponseOk(call.response)

\* a body {error: {code: <number>, message: <string>}}
IsStructuredError(v) ==
    /\ v.t = "object"
    /\ Get(v, "error").t = "object"
    /\ Get(Get(v, "error"), "code").t = "number"
    /\ Get(Get(v, "error"), "message").t = "string"

ErrorCode(v) == Get(Get(v, "error"), "code").s
ErrorText(v) == Get(Get(v, "error"), "message").s

\* C4 as stated: for every non-2xx response whose body is a structured error
\* object {error:{code,message}}, the raised error's message is exactly
\* "<code> - <message>".
C4_StructuredErrorCodeDashMessage ==
    FailedUpstream =>
        \A v \in JsonUniverse :
            IsStructuredError(v) /\ WireText[v] = call.response.body =>
                /\ call.outcome.threw
                /\ call.outcome.message = ErrorCode(v) \o " - " \o ErrorText(v)

\* C4 amended: for every non-2xx response whose body is a structured error
\* object {error:{code,message}}, the raised error's message is exactly
\* <message> when that is non-empty (the code is not part of it), and
\* "HTTP <status>: <statusText>" when the message is empty.
C4_StructuredErrorMessage ==
    FailedUpstream =>
        \A v \in JsonUniverse :
            IsStructuredError(v) /\ WireText[v] = call.response.body =>
                /\ call.outcome.threw
                /\ call.outcome.message =
                      IF ErrorText(v) # "" THEN ErrorText(v)
                      ELSE "HTTP " \o ToString(call.response.status) \o ": "
                           \o call.response.statusText

\* a 404 with {"error":{"code":404,"message":"Space not found"}}
C4_Witness ==
    /\ FailedUpstream
    /\ call.op = "get_space"
    /\ call.response.status = 404
    /\ call.response.body = WireText[ErrorBody(404, "Space not found")]
    /\ call.outcome.threw
    /\ call.outcome.message = "Space not found"

\* C5 as stated: for every non-2xx response whose body is not parseable
\* JSON, the raised error's message is exactly "<status> <statusText>".
C5_UnparseableErrorStatusLine ==
    FailedUpstream /\ call.response.body \in NotJsonBodies =>
        /\ call.outcome.threw
        /\ call.outcome.message = ToString(call.response.status) \o " "
                                  \o call.response.statusText

\* C5 amended: for every non-2xx response whose body is not parseable JSON,
\* the raised error's message is exactly "HTTP <status>: <statusText>".
C5_UnparseableErrorHttpStatusLine ==
    FailedUpstream /\ call.response.body \in NotJsonBodies =>
        /\ call.outcome.threw
        /\ call.outcome.message = "HTTP " \o ToString(call.response.status)
                                  \o ": " \o call.response.statusText

\* a 404 Not Found with an HTML body
C5_Witness ==
    /\ FailedUpstream
    /\ call.op = "search_content"
    /\ call.response.status = 404
    /\ call.response.statusText = "Not Found"
    /\ call.response.body = "<html>Bad Gateway</html>"
    /\ call.outcome.message = "HTTP 404: Not Found"

NonListTools == {"get_space", "get_space_content", "get_page_content",
                 "get_page_by_path", "search_content", "get_file",
                 "get_collection"}

\* C6: for every 2xx response with a JSON payload, the request operation
\* returns a value structurally equal to that payload, and the non-list
\* tools reply with the serialization (JSON.stringify with indent 2) of
\* exactly that payload.
C6_SuccessPassesThrough ==
    Settled /\ ResponseOk(call.response) =>
        \A payload \in JsonUniverse :
            WireText[payload] = call.response.body =>
                /\ call.returned = payload
                /\ call.op \in NonListTools =>
                      /\ ~call.outcome.threw
                      /\ call.outcome.shape = "content"
                      /\ call.outcome.text = JSONStringifyPretty(payload)

\* get_page_content answered 200 with a nested document
C6_Witness ==
    /\ Settled
    /\ call.op = "get_page_content"
    /\ call.response.status = 200
    /\ call.response.body = "{\"pages\":[\"p1\",\"p2\"]}"
    /\ call.returned = JObj(<<Prop("pages", JArr(<<JStr("p1"), JStr("p2")>>))>>)
    /\ call.outcome.text = "{\n  \"pages\": [\n    \"p1\",\n    \"p2\"\n  ]\n}"

-----------------------------------------------------------------------------
(* Default substitution and the missing-configuration error *)

OptionalSpaceOperations ==
    {"get_space_content", "get_page_content", "get_page_by_path",
     "search_content", "get_space_files", "get_file"} \cup Prompts

OptionalOrganizationOperations == {"list_spaces", "list_collections", "collections"}

OptionalOperations == OptionalSpaceOperations \cup OptionalOrganizationOperations

\* the identifier argument of an invocation and the default it falls back to
ExplicitId(op, args) ==
    IF op \in OptionalOrganizationOperations THEN args.organizationId
    ELSE args.spaceId

DefaultId(op) ==
    IF op \in OptionalOrganizationOperations THEN gitbookClient.organizationId
    ELSE gitbookClient.defaultSpaceId

\* the operations falling back to the same default as op
SameField(op) ==
    IF op \in OptionalOrganizationOperations THEN OptionalOrganizationOperations
    ELSE OptionalSpaceOperations

\* the ways of supplying an identifier that an error message names
MechanismsNamed(message) ==
    CASE message \in {NoSpaceMessage, NoOrganizationMessage} ->
            {"argument", "CLI argument", "configuration file"}
      [] message \in {SpacesOrganizationMessage, CollectionsOrganizationMessage} ->
            {"argument", "environment variable"}
      [] OTHER -> {}

MissingConfigurationMessages ==
    {NoSpaceMessage, NoOrganizationMessage, SpacesOrganizationMessage,
     CollectionsOrganizationMessage}

MissingConfiguration ==
    /\ call.state = "done"
    /\ call.outcome.threw
    /\ call.outcome.message \in MissingConfigurationMessages

\* C7: every operation with an optional spaceId or organizationId, invoked
\* without that argument and with no resolved default, fails with a
\* missing-configuration error whose message names all three supply
\* mechanisms, and the message is the same for every operation on the same
\* field.
C7_UniformMissingConfigurationError ==
    /\ call.state = "done"
    /\ call.op \in OptionalOperations
    /\ ExplicitId(call.op, call.args) = Undefined
    /\ DefaultId(call.op) = Undefined
    => /\ MissingConfiguration
       /\ call.requests = 0
       /\ Cardinality(MechanismsNamed(call.outcome.message)) = 3
       /\ \A other \in SameField(call.op) :
             Handler(gitbookClient, resolvedConfig.spaceId, other,
                     NoArgs).message = call.outcome.message

\* the endpoint of op for the identifier id
TemplatedWith(op, args, id) ==
    CASE op = "list_spaces" -> "/orgs/" \o id \o "/spaces"
      [] op \in {"list_collections", "collections"} ->
            "/orgs/" \o id \o "/collections"
      [] op = "get_space_content" -> "/spaces/" \o id \o "/content"
      [] op = "get_page_content" ->
            getPageContent(gitbookClient, id, args.pageId,
                           PageOptions(args)).endpoint
      [] op = "get_page_by_path" ->
            getPageByPath(gitbookClient, id, args.pagePath).endpoint
      [] op = "search_content" ->
            searchContent(gitbookClient, id, args.query).endpoint
      [] op = "get_space_files" -> getSpaceFiles(gitbookClient, id).endpoint
      [] op = "get_file" -> getFile(gitbookClient, id, args.fileId).endpoint
      [] OTHER -> ""

Requested == call.state \in {"pending", "done"} /\ call.requests = 1

\* C8 as stated: when a call supplies spaceId or organizationId explicitly,
\* the outbound request is templated with that explicit value and never with
\* the configured default; when the argument is omitted and a default is
\* configured, the request is templated with the default.
C8_ExplicitIdentifierOverridesDefault ==
    Requested /\ call.op \in OptionalOperations =>
        /\ ExplicitId(call.op, call.args) # Undefined =>
              call.request.url = baseURL
                 \o TemplatedWith(call.op, call.args,
                                  ExplicitId(call.op, call.args))
        /\ ExplicitId(call.op, call.args) = Undefined
           /\ Truthy(DefaultId(call.op)) =>
              call.request.url = baseURL
                 \o TemplatedWith(call.op, call.args, DefaultId(call.op))

\* C8 amended: when a call supplies a non-empty spaceId or organizationId,
\* the outbound request is templated with that explicit value and never with
\* the configured default; when the argument is omitted (or empty) and a
\* default is configured, the request is templated with the default.
C8_NonEmptyExplicitIdentifierOverridesDefault ==
    /\ call.state \in {"pending", "done"} /\ call.op \in OptionalOperations
       /\ call.op \notin Prompts
       /\ (Truthy(ExplicitId(call.op, call.args)) \/ Truthy(DefaultId(call.op)))
       => call.requests = 1
    /\ Requested /\ call.op \in OptionalOperations =>
        /\ Truthy(ExplicitId(call.op, call.args)) =>
              call.request.url = baseURL
                 \o TemplatedWith(call.op, call.args,
                                  ExplicitId(call.op, call.args))
        /\ Falsy(ExplicitId(call.op, call.args))
           /\ Truthy(DefaultId(call.op)) =>
              call.request.url = baseURL
                 \o TemplatedWith(call.op, call.args, DefaultId(call.op))

\* get_space_content for space_arg on a server whose default is space_env
C8_Witness ==
    /\ Requested
    /\ call.op = "get_space_content"
    /\ call.args.spaceId = "space_arg"
    /\ gitbookClient.defaultSpaceId = "space_env"
    /\ call.request.url = "https://api.gitbook.com/v1/spaces/space_arg/content"

NoDefaultOperations == {"list_organizations", "get_space", "get_collection",
                        "get_collection_spaces"}

\* no start-up failure other than the missing token or a failed connect
StartsWithoutIdentifiers ==
    /\ pc = "exited" => Falsy(apiToken) \/ gitbookClient.constructed
    /\ pc # "running" => call = IdleCall

\* C9 as stated: the absence of organizationId and spaceId never fails at
\* start-up; every operation that needs no default, or that receives its
\* identifier explicitly, proceeds to issue its request (a prompt: to its
\* reply); a missing-configuration failure occurs only at the invocation of
\* an operation that has neither an explicit identifier nor a resolved
\* default.
C9_IdentifiersFailOnlyLazily ==
    /\ StartsWithoutIdentifiers
    /\ call.state \in {"pending", "done"} =>
        /\ \/ call.op \in NoDefaultOperations
           \/ call.op \in OptionalOperations
              /\ ExplicitId(call.op, call.args) # Undefined
           => /\ ~MissingConfiguration
              /\ call.op \notin Prompts => call.requests = 1
        /\ MissingConfiguration =>
              /\ call.op \in OptionalOperations
              /\ ExplicitId(call.op, call.args) = Undefined
              /\ Falsy(DefaultId(call.op))

\* C9 amended: the absence of organizationId and spaceId never fails at
\* start-up; every operation that needs no default, or that receives a
\* non-empty identifier explicitly, proceeds to issue its request (a prompt:
\* to its reply); a missing-configuration failure occurs only at the
\* invocation of an operation that has neither a non-empty explicit
\* identifier nor a non-empty resolved default, and before any request.
C9_IdentifiersFailOnlyLazilyNonEmpty ==
    /\ StartsWithoutIdentifiers
    /\ call.state \in {"pending", "done"} =>
        /\ \/ call.op \in NoDefaultOperations
           \/ call.op \in OptionalOperations
              /\ Truthy(ExplicitId(call.op, call.args))
           => /\ ~MissingConfiguration
              /\ call.op \notin Prompts => call.requests = 1
        /\ MissingConfiguration =>
              /\ call.op \in OptionalOperations
              /\ Falsy(ExplicitId(call.op, call.args))
              /\ Falsy(DefaultId(call.op))
              /\ call.requests = 0

\* a server started with a token and no identifier at all serves
\* list_collections for an explicit organization
C9_Witness ==
    /\ pc = "running"
    /\ Truthy(apiToken)
    /\ resolvedConfig = [organizationId |-> Undefined, spaceId |-> Undefined]
    /\ call.state = "pending"
    /\ call.op = "list_collections"
    /\ call.args.organizationId = "org_arg"
    /\ call.request.url = "https://api.gitbook.com/v1/orgs/org_arg/collections"

-----------------------------------------------------------------------------
(* List operations *)

ListTools == {"list_organizations", "list_spaces", "get_space_files",
              "list_collections", "get_collection_spaces"}

\* the body of a 2xx response carries an items array
HasItems(payload) == payload.t = "object" /\ Get(payload, "items").t = "array"

C12_ToolRepliesWithJsonText ==
    call.state = "done" /\ call.op \in Tools /\ ~call.outcome.threw =>
        /\ call.outcome.shape = "content"
        /\ call.outcome.text # Undefined
        /\ call.outcome.text \in
              {JSONStringifyPretty(v) : v \in JsonUniverse}
              \cup {JSONStringifyPretty(Get(v, "items")) : v \in JsonUniverse}

-----------------------------------------------------------------------------
(* The request operation of the client applied to arbitrary arguments *)

RequestEndpoints == {"/orgs", "/spaces/space_arg/content"}

RequestOptions ==
    {[method |-> m, body |-> b,
      headers |-> [h \in HeaderNames |->
                      CASE h = "Authorization" -> a
                        [] h = "Content-Type" -> c
                        [] OTHER -> x]] :
        m \in {Undefined, "GET", "POST"},
        b \in {JUndefined, JObj(<<Prop("title", JStr("Acme"))>>)},
        a \in {Undefined, "Basic dXNlcg=="},
        c \in {Undefined, "text/plain"},
        x \in {Undefined, "application/json"}}

\* makeRequest(endpoint, options) is called: call.request holds the arguments
\* of its fetch
CallMakeRequest(endpoint, options) ==
    /\ pc = "running"
    /\ call.op \in {"", "makeRequest"}
    /\ call' = [IdleCall EXCEPT !.state = "pending", !.op = "makeRequest",
                   !.plan = Await(endpoint, "whole"), !.options = options,
                   !.request = makeRequest(gitbookClient, endpoint, options),
                   !.requests = 1]
    /\ UNCHANGED <<argv, env, envFileState, localFiles, DEBUG, envLoaded, pc,
                   apiToken, resolvedConfig, gitbookClient, resources, stdout,
                   stderr, exitCode, concurrent>>

NextRequest ==
    \/ LoadEnvFiles
    \/ InitializeClient
    \/ Main
    \/ MainFailed
    \/ \E endpoint \in RequestEndpoints : \E options \in RequestOptions :
          CallMakeRequest(endpoint, options)

SpecRequest == Init /\ [][NextRequest]_vars

-----------------------------------------------------------------------------
(* One request per invocation *)

\* C14 as stated: each tool invocation issues exactly one outbound HTTP
\* request.
C14_ExactlyOneRequest ==
    call.state = "done" /\ call.op \in Tools => call.requests = 1

\* C14 amended: each tool invocation issues at most one outbound HTTP
\* request, and exactly one unless it fails with a missing-configuration
\* error before any request; a request that fails (non-2xx or network error)
\* is never retried, and a request is issued only by the start of an
\* invocation, never after an invocation has completed.
C14_AtMostOneRequestNeverRetried ==
    /\ [](call.op \in Tools =>
             /\ call.state = "pending" => call.requests = 1
             /\ call.state = "done" =>
                   call.requests = IF MissingConfiguration THEN 0 ELSE 1)
    /\ [][call.state = "pending" =>
             call'.state = "done" /\ call'.requests = call.requests]_vars
    /\ [][call.state = "done" => call' = IdleCall]_vars
    /\ [][call'.requests > call.requests =>
             call.state = "none" /\ call'.requests = 1]_vars

\* search_content answered 500 has failed after its one request
C14_Witness ==
    /\ call.state = "done"
    /\ call.op = "search_content"
    /\ call.response.status = 500
    /\ call.outcome.threw
    /\ call.requests = 1

-----------------------------------------------------------------------------
(* Immutability of the configuration *)

\* C15: the effective configuration (apiToken, organizationId, default
\* spaceId) is fixed once at start-up: no step after it, and so no tool,
\* resource or prompt invocation, whether it succeeds or fails, changes it or
\* any other state of the client, and the client holds exactly the resolved
\* configuration.
C15_ConfigurationFixedAtStartup ==
    /\ [](gitbookClient.constructed =>
             gitbookClient =
                GitBookAPIClient(apiToken,
                    [organizationId |-> resolvedConfig.organizationId,
                     defaultSpaceId |-> resolvedConfig.spaceId]))
    /\ [][Resolved => UNCHANGED <<apiToken, resolvedConfig, gitbookClient,
                                  resources, env, argv>>]_vars

\* get_space_content for an explicit space has failed with a 404 and the
\* client still holds the start-up configuration
C15_Witness ==
    /\ call.state = "done"
    /\ call.op = "get_space_content"
    /\ call.args.spaceId = "space_arg"
    /\ call.response.status = 404
    /\ call.outcome.threw
    /\ gitbookClient = GitBookAPIClient("tok_env",
                          [organizationId |-> "org_cli",
                           defaultSpaceId |-> "space_env"])

-----------------------------------------------------------------------------
(* Two invocations in flight at once: the host dispatches a second          *)
(* invocation without waiting for the first, and the two fetches settle in *)
(* either order.                                                            *)

ConcurrentOperations == {"list_organizations", "list_spaces",
                         "get_space_content", "get_file"}

ConcurrentResponses ==
    {r \in Responses :
        /\ r.status \in {200, 404}
        /\ r.body \in {WireText[JObj(<<Prop("items", JArr(<<>>))>>)],
                       WireText[ErrorBody(404, "Space not found")]}}
    \cup {NetworkError}

\* InvokeConcurrent handing the second invocation the request already in
\* flight for the first
InvokeConcurrentSharingRequest(op, args) ==
    /\ pc = "running"
    /\ concurrent.state = "none"
    /\ Registered(op)
    /\ LET started == StartedCall(gitbookClient, resolvedConfig.spaceId, op,
                                  args)
       IN concurrent' = IF call.state = "pending" /\ started.state = "pending"
                        THEN [started EXCEPT !.request = call.request]
                        ELSE started
    /\ UNCHANGED <<argv, env, envFileState, localFiles, DEBUG, envLoaded, pc,
                   apiToken, resolvedConfig, gitbookClient, resources, stdout,
                   stderr, exitCode, call>>

InvokeConcurrent(op, args) ==
    /\ pc = "running"
    /\ concurrent.state = "none"
    /\ Registered(op)
    /\ concurrent' = StartedCall(gitbookClient, resolvedConfig.spaceId, op,
                                 args)
    /\ UNCHANGED <<argv, env, envFileState, localFiles, DEBUG, envLoaded, pc,
                   apiToken, resolvedConfig, gitbookClient, resources, stdout,
                   stderr, exitCode, call>>

RespondConcurrent(response) ==
    /\ pc = "running"
    /\ concurrent.state = "pending"
    /\ concurrent' = SettledCall(concurrent, response)
    /\ UNCHANGED <<argv, env, envFileState, localFiles, DEBUG, envLoaded, pc,
                   apiToken, resolvedConfig, gitbookClient, resources, stdout,
                   stderr, exitCode, call>>

\* DeliverConcurrent keeping the space of the completed invocation as the
\* client's default
DeliverConcurrentRememberingSpace ==
    /\ pc = "running"
    /\ concurrent.state = "done"
    /\ concurrent' = IdleCall
    /\ gitbookClient' = [gitbookClient EXCEPT
                            !.defaultSpaceId = Or(concurrent.args.spaceId, @)]
    /\ UNCHANGED <<argv, env, envFileState, localFiles, DEBUG, envLoaded, pc,
                   apiToken, resolvedConfig, resources, stdout, stderr,
                   exitCode, call>>

DeliverConcurrent ==
    /\ pc = "running"
    /\ concurrent.state = "done"
    /\ concurrent' = IdleCall
    /\ UNCHANGED <<argv, env, envFileState, localFiles, DEBUG, envLoaded, pc,
                   apiToken, resolvedConfig, gitbookClient, resources, stdout,
                   stderr, exitCode, call>>

InitConcurrent ==
    /\ argv = [organizationId |-> Undefined, spaceId |-> Undefined]
    /\ \E org \in {Undefined, "org_env"}, space \in {Undefined, "space_env"} :
          env = [n \in EnvVarNames |->
                   CASE n = "GITBOOK_API_TOKEN" -> "tok_env"
                     [] n = "GITBOOK_ORGANIZATION_ID" -> org
                     [] n = "GITBOOK_SPACE_ID" -> space
                     [] OTHER -> Undefined]
    /\ envFileState = [i \in 1..4 |-> MissingFile]
    /\ localFiles = <<NoKeys, NoKeys, NoKeys, NoKeys>>
    /\ InitState

NextConcurrent ==
    \/ LoadEnvFiles
    \/ InitializeClient
    \/ Main
    \/ MainFailed
    \/ \E op \in ConcurrentOperations : \E args \in ArgsFor(op) :
          Invoke(op, args)
    \/ \E response \in ConcurrentResponses : Respond(response)
    \/ Deliver
    \/ \E op \in ConcurrentOperations : \E args \in ArgsFor(op) :
          InvokeConcurrent(op, args)
    \/ \E response \in ConcurrentResponses : RespondConcurrent(response)
    \/ DeliverConcurrent

SpecConcurrent == InitConcurrent /\ [][NextConcurrent]_vars

\* the invocation c is in the state it reaches when it runs alone: idle, or
\* started from its own operation and arguments and, once its fetch has
\* settled, completed from its own response
AsIfAlone(c) ==
    LET alone == StartedCall(gitbookClient, resolvedConfig.spaceId, c.op,
                             c.args)
    IN CASE c.state = "none" -> c = IdleCall
         [] c.state = "pending" -> c = alone
         [] OTHER -> c = IF alone.state = "done" THEN alone
                         ELSE SettledCall(alone, c.response)

\* C16: for any interleaving of two concurrently dispatched tool
\* invocations, each issues the request and produces the result (for the
\* response to its own request) that it issues and produces when it runs
\* alone, and a step of one invocation leaves the other and the resolved
\* configuration unchanged.
C16_ConcurrentInvocationsIndependent ==
    /\ [](AsIfAlone(call) /\ AsIfAlone(concurrent))
    /\ [][concurrent' # concurrent => call' = call]_vars
    /\ [][call' # call => concurrent' = concurrent]_vars
    /\ [][pc = "running" => UNCHANGED <<gitbookClient, resolvedConfig>>]_vars

\* get_file has failed with a 404 while list_spaces, dispatched with it, is
\* still awaiting its own response
C16_Witness ==
    /\ call.state = "pending"
    /\ call.op = "list_spaces"
    /\ call.request.url = "https://api.gitbook.com/v1/orgs/org_env/spaces"
    /\ concurrent.state = "done"
    /\ concurrent.op = "get_file"
    /\ concurrent.request.url =
          "https://api.gitbook.com/v1/spaces/space_arg/files/file1"
    /\ concurrent.response.status = 404
    /\ concurrent.outcome.message = "Space not found"

-----------------------------------------------------------------------------
(* Requests of the registered operations *)

\* C17: every outbound request issued by a registered tool or resource uses
\* the HTTP method GET and carries no request body.
C17_RequestsAreGetWithoutBody ==
    Requested /\ call.op \in Tools \cup ResourceReads \cup ResourceLists =>
        /\ call.request.method = "GET"
        /\ call.request.body = Undefined
        /\ call.options = NoOptions

\* the collections resource read for org_arg
C17_Witness ==
    /\ Requested
    /\ call.op = "collections"
    /\ call.args.organizationId = "org_arg"
    /\ call.request.url = "https://api.gitbook.com/v1/orgs/org_arg/collections"
    /\ call.request.method = "GET"
    /\ call.request.body = Undefined

\* C18: get_space_files with effective space S requests
\* /spaces/S/content/files, and get_file with file F requests
\* /spaces/S/content/files/F.
C18_FileOperationsUseContentFiles ==
    Requested =>
        LET S == Or(call.args.spaceId, gitbookClient.defaultSpaceId)
        IN /\ call.op = "get_space_files" =>
                 call.request.url = baseURL \o "/spaces/" \o S
                                    \o "/content/files"
           /\ call.op = "get_file" =>
                 call.request.url = baseURL \o "/spaces/" \o S
                                    \o "/content/files/" \o call.args.fileId

-----------------------------------------------------------------------------
(* Env file priority and the token check *)

\* the env file exists, loads and assigns the variable n
Defines(file, n) == file.exists /\ ~file.error /\ file.vars[n] # Undefined

\* C19: with .env.local and .env in the project root (and no env file in the
\* working directory), for each of GITBOOK_API_TOKEN,
\* GITBOOK_ORGANIZATION_ID and GITBOOK_SPACE_ID the value after loading is
\* the one in .env.local if it defines the variable, otherwise the one in
\* .env if it defines the variable, otherwise the value already in the
\* process environment.
C19_EnvLocalThenEnvThenProcess ==
    [][pc = "load_env" /\ ~envFileState[3].exists /\ ~envFileState[4].exists
       => \A n \in {"GITBOOK_API_TOKEN", "GITBOOK_ORGANIZATION_ID",
                    "GITBOOK_SPACE_ID"} :
             env'[n] = IF Defines(envFileState[1], n)
                       THEN envFileState[1].vars[n]
                       ELSE IF Defines(envFileState[2], n)
                       THEN envFileState[2].vars[n]
                       ELSE env[n]]_vars

\* a log notification saying the transport has connected
ServerRunningLogged ==
    \E i \in 1..Len(stdout) :
        stdout[i].data = "GitBook MCP server running on stdio"

\* C20: if the API token is absent at start-up the process exits (code 1)
\* before the client is constructed and before the server connects; no
\* operation is served and no request is issued without an API token.
C20_NoTokenNoService ==
    /\ Resolved /\ Falsy(apiToken) =>
          /\ pc = "exited"
          /\ exitCode = 1
          /\ ~gitbookClient.constructed
          /\ resources = {}
          /\ ~ServerRunningLogged
          /\ call = IdleCall
    /\ gitbookClient.constructed \/ pc \in {"main", "running"}
       \/ ServerRunningLogged \/ call # IdleCall =>
          /\ Truthy(apiToken)
          /\ gitbookClient.apiToken = apiToken
    /\ call.requests > 0 =>
          call.request.headers["Authorization"] = "Bearer " \o apiToken

\* a start-up with GITBOOK_API_TOKEN unset has exited without a client
C20_Witness ==
    /\ pc = "exited"
    /\ env["GITBOOK_API_TOKEN"] = Undefined
    /\ apiToken = Undefined
    /\ exitCode = 1
    /\ ~gitbookClient.constructed
    /\ call = IdleCall
    /\ \E i \in 1..Len(stdout) : stdout[i].data = TokenRequiredMessage

-----------------------------------------------------------------------------
(* Resolution before the request *)

\* C21: when an invocation has neither an explicit identifier nor a resolved
\* default, the missing-configuration error is raised before any outbound
\* request: the invocation completes in the step that starts it, having
\* issued zero requests.
C21_MissingConfigurationBeforeRequest ==
    /\ [](call.state \in {"pending", "done"} /\ call.op \in OptionalOperations
          /\ ExplicitId(call.op, call.args) = Undefined
          /\ Falsy(DefaultId(call.op))
          => /\ MissingConfiguration
             /\ call.requests = 0
             /\ call.request = NoRequest
             /\ call.response = NoResponse)
    /\ [][MissingConfiguration' => call.state = "none" /\ call'.requests = 0]_vars

\* list_collections without organizationId on a server without a default
\* organization has failed without a request
C21_Witness ==
    /\ call.state = "done"
    /\ call.op = "list_collections"
    /\ call.args.organizationId = Undefined
    /\ gitbookClient.organizationId = Undefined
    /\ call.outcome.threw
    /\ call.outcome.message = NoOrganizationMessage
    /\ call.requests = 0

-----------------------------------------------------------------------------
(* Failures of the request *)

\* fetch rejected, the status is not 2xx, or the body of a 2xx is not JSON
RequestFailed(response) ==
    \/ response.rejected
    \/ ~ResponseOk(response)
    \/ response.body \in NotJsonBodies

\* C22: every failure of the outbound request (a non-2xx status, a rejection
\* of fetch, or a 2xx response whose body is not JSON) makes the tool or
\* resource invocation fail with an error: no content is returned, and a
\* non-2xx response never yields a returned value.
C22_RequestFailureFailsInvocation ==
    call.state = "done" /\ call.requests = 1
    /\ call.op \in Tools \cup ResourceReads \cup ResourceLists
    /\ RequestFailed(call.response) =>
        /\ call.outcome.threw
        /\ call.outcome.shape = "none"
        /\ call.outcome.text = Undefined
        /\ call.returned = JUndefined

\* list_organizations answered 500 with a JSON body that is not an error
\* object has failed
C22_Witness ==
    /\ call.state = "done"
    /\ call.op = "list_organizations"
    /\ call.response.status = 500
    /\ call.response.body = WireText[JObj(<<Prop("items", JArr(<<>>))>>)]
    /\ call.outcome.threw
    /\ call.outcome.message = "HTTP 500: "
    /\ call.returned = JUndefined

\* the parsed body carries no usable error message: it is null, has no error
\* object, or the error's message is absent or empty
NoUsableMessage(v) ==
    \/ Nullish(v)
    \/ Nullish(Get(v, "error"))
    \/ JFalsy(Get(Get(v, "error"), "message"))

\* C23 as stated: for a non-2xx response whose body parses as JSON but
\* carries no usable error message, the raised error message is the status
\* line "HTTP <status>: <statusText>"; in every non-2xx case the raised error
\* message is non-empty.
C23_StatusLineFallbackNeverEmpty ==
    FailedUpstream =>
        /\ call.outcome.threw
        /\ \A v \in JsonUniverse :
              WireText[v] = call.response.body /\ NoUsableMessage(v) =>
                 call.outcome.message =
                    "HTTP " \o ToString(call.response.status) \o ": "
                    \o call.response.statusText
        /\ call.outcome.message # ""

\* C23 amended: for a non-2xx response whose body parses as JSON but carries
\* no usable error message, the raised error message is the status line
\* "HTTP <status>: <statusText>"; the raised error message is non-empty in
\* every non-2xx case except when the body's error.message is a truthy value
\* whose string form is empty (an empty array), which is raised as the empty
\* message.
C23_StatusLineFallbackEmptyOnlyForEmptyStringForm ==
    FailedUpstream =>
        /\ call.outcome.threw
        /\ \A v \in JsonUniverse :
              WireText[v] = call.response.body /\ NoUsableMessage(v) =>
                 call.outcome.message =
                    "HTTP " \o ToString(call.response.status) \o ": "
                    \o call.response.statusText
        /\ call.outcome.message = "" <=>
              \E v \in JsonUniverse :
                 /\ WireText[v] = call.response.body
                 /\ ~NoUsableMessage(v)
                 /\ Get(Get(v, "error"), "message") = JArr(<<>>)

\* a 500 without status text whose error object has an empty message
C23_Witness ==
    /\ FailedUpstream
    /\ call.response.status = 500
    /\ call.response.statusText = ""
    /\ call.response.body = WireText[ErrorBody(500, "")]
    /\ call.outcome.threw
    /\ call.outcome.message = "HTTP 500: "

-----------------------------------------------------------------------------
(* Empty identifiers: start-up from every combination of absent, empty and  *)
(* given CLI flags and environment variables, then the operations that take *)
(* a space or organization identifier                                       *)

IdentifierOperations == OptionalOperations \cup {"get_space", "default-space"}

InitIdentifiers ==
    /\ argv \in [organizationId : CliOrgValues, spaceId : CliSpaceValues]
    /\ \E org \in EnvOrgValues, space \in EnvSpaceValues :
          env = [n \in EnvVarNames |->
                   CASE n = "GITBOOK_API_TOKEN" -> "tok_env"
                     [] n = "GITBOOK_ORGANIZATION_ID" -> org
                     [] n = "GITBOOK_SPACE_ID" -> space
                     [] OTHER -> Undefined]
    /\ envFileState = [i \in 1..4 |-> MissingFile]
    /\ localFiles = <<NoKeys, NoKeys, NoKeys, NoKeys>>
    /\ InitState

NextIdentifiers ==
    \/ LoadEnvFiles
    \/ InitializeClient
    \/ Main
    \/ MainFailed
    \/ \E op \in IdentifierOperations : \E args \in ArgsFor(op) :
          Invoke(op, args)
    \/ \E response \in ConcurrentResponses : Respond(response)
    \/ Deliver

SpecIdentifiers == InitIdentifiers /\ [][NextIdentifiers]_vars

\* the endpoint of an operation taking a space or organization identifier,
\* for the identifier id
IdentifierEndpoint(op, args, id) ==
    CASE op = "get_space" -> "/spaces/" \o id
      [] op = "default-space" -> "/spaces/" \o id \o "/content"
      [] OTHER -> TemplatedWith(op, args, id)

\* an empty CLI flag falls through to the environment value, and an empty
\* (or omitted) argument falls back to the configured default or raises the
\* missing-configuration error
EmptyFallsThrough ==
    /\ Resolved =>
          /\ Falsy(argv.organizationId) =>
                resolvedConfig.organizationId = EnvOrganizationId
          /\ Falsy(argv.spaceId) => resolvedConfig.spaceId = EnvSpaceId
    /\ call.state \in {"pending", "done"} /\ call.op \in OptionalOperations
       /\ Falsy(ExplicitId(call.op, call.args)) =>
          IF Falsy(DefaultId(call.op))
          THEN MissingConfiguration /\ call.requests = 0
          ELSE IF call.op \in Prompts
          THEN /\ ~call.outcome.threw
               /\ \E i \in 1..Len(call.outcome.parts) :
                     call.outcome.parts[i] = DefaultId(call.op)
          ELSE /\ call.requests = 1
               /\ call.request.url = baseURL
                     \o TemplatedWith(call.op, call.args, DefaultId(call.op))

\* C24 as stated: an empty-string identifier is treated as absent at every
\* level of the fallback chain, and no request is ever templated with an
\* empty identifier coming from a CLI flag or from a spaceId or
\* organizationId argument.
C24_EmptyIdentifierNeverTemplated ==
    /\ EmptyFallsThrough
    /\ Requested /\ call.op \in IdentifierOperations =>
          call.request.url #
             baseURL \o IdentifierEndpoint(call.op, call.args, "")

\* C24 amended: an empty-string identifier is treated as absent at every
\* level of the fallback chain, and no request of an operation whose
\* identifier is optional, nor of the default-space resource, is templated
\* with an empty identifier; get_space, whose spaceId is required, templates
\* an empty spaceId as given (it requests /spaces/).
C24_EmptyOptionalIdentifierNeverTemplated ==
    /\ EmptyFallsThrough
    /\ Requested /\ call.op \in IdentifierOperations =>
          IF call.op = "get_space"
          THEN call.request.url = baseURL \o "/spaces/" \o call.args.spaceId
          ELSE call.request.url #
                  baseURL \o IdentifierEndpoint(call.op, call.args, "")

\* started with --space-id= (empty) and GITBOOK_SPACE_ID=space_env,
\* get_space_content with the spaceId "" requests the content of space_env
C24_Witness ==
    /\ argv.spaceId = ""
    /\ resolvedConfig.spaceId = "space_env"
    /\ Requested
    /\ call.op = "get_space_content"
    /\ call.args.spaceId = ""
    /\ call.request.url = "https://api.gitbook.com/v1/spaces/space_env/content"

-----------------------------------------------------------------------------
(* Query parameters of get_page_content *)

\* name=value when the caller supplied the argument, nothing otherwise
Supplied(name, value) ==
    IF value = Undefined THEN <<>> ELSE <<name \o "=" \o value>>

\* C25: get_page_content sends each of format, metadata and computed exactly
\* when the caller supplied it (false as the text false), each at most once
\* and in that order; when none is supplied the endpoint
\* /spaces/S/content/page/P carries no query string.
C25_PageContentQueryParameters ==
    Requested /\ call.op = "get_page_content" =>
        LET S == Or(call.args.spaceId, gitbookClient.defaultSpaceId)
            path == baseURL \o "/spaces/" \o S \o "/content/page/"
                    \o call.args.pageId
            query == Supplied("format", call.args.format)
                     \o Supplied("metadata", call.args.metadata)
                     \o Supplied("computed", call.args.computed)
        IN call.request.url =
              IF query = <<>> THEN path
              ELSE path \o "?" \o JoinStrings(query, "&")

\* get_page_content with format markdown, metadata false and computed false
C25_Witness ==
    /\ Requested
    /\ call.op = "get_page_content"
    /\ call.args.format = "markdown"
    /\ call.args.metadata = "false"
    /\ call.args.computed = "false"
    /\ call.request.url =
          "https://api.gitbook.com/v1/spaces/space_arg/content/page/page1?format=markdown&metadata=false&computed=false"

-----------------------------------------------------------------------------
(* Debug logging and the order of start-up *)

\* stderr carries the line
Logged(line) == \E i \in 1..Len(stderr) : stderr[i] = line

\* C26: when the env file that the server loads sets DEBUG=1, debug logging
\* is enabled for that process: the debug lines about the env file search
\* and about the configuration sources are emitted.
C26_DebugFromEnvFileEnablesLogging ==
    Resolved =>
        \A k \in 1..4 :
            /\ Defines(envFileState[k], "DEBUG")
            /\ envFileState[k].vars["DEBUG"] = "1"
            /\ \A j \in 1..(k - 1) :
                  ~(envFileState[j].exists /\ ~envFileState[j].error)
            => /\ Logged("Debug: Working directory")
               /\ Logged("Debug: Configuration sources:")

\* the env file the loop loads: the first in search order that exists and
\* loads without error
IsLoadedFile(k) ==
    /\ envFileState[k].exists /\ ~envFileState[k].error
    /\ \A j \in 1..(k - 1) :
          ~(envFileState[j].exists /\ ~envFileState[j].error)

\* C27 as stated: a GITBOOK_API_TOKEN, GITBOOK_ORGANIZATION_ID or
\* GITBOOK_SPACE_ID defined in the loaded env file is the value seen by the
\* token check and by the resolver, while a CLI flag for the same field
\* still wins.
C27_EnvFileSeenCliFlagWins ==
    Resolved =>
        \A k \in 1..4 : IsLoadedFile(k) =>
            LET file == envFileState[k].vars
            IN /\ file["GITBOOK_API_TOKEN"] # Undefined =>
                     apiToken = file["GITBOOK_API_TOKEN"]
               /\ file["GITBOOK_ORGANIZATION_ID"] # Undefined =>
                     resolvedConfig.organizationId =
                        IF argv.organizationId # Undefined
                        THEN argv.organizationId
                        ELSE file["GITBOOK_ORGANIZATION_ID"]
               /\ file["GITBOOK_SPACE_ID"] # Undefined =>
                     resolvedConfig.spaceId =
                        IF argv.spaceId # Undefined THEN argv.spaceId
                        ELSE file["GITBOOK_SPACE_ID"]

\* C27 amended: a GITBOOK_API_TOKEN, GITBOOK_ORGANIZATION_ID or
\* GITBOOK_SPACE_ID defined in the loaded env file is the value seen by the
\* token check and by the resolver, while a non-empty CLI flag for the same
\* field still wins (an empty CLI flag value does not: the file's value is
\* used).
C27_EnvFileSeenNonEmptyCliFlagWins ==
    Resolved =>
        \A k \in 1..4 : IsLoadedFile(k) =>
            LET file == envFileState[k].vars
            IN /\ file["GITBOOK_API_TOKEN"] # Undefined =>
                     /\ apiToken = file["GITBOOK_API_TOKEN"]
                     /\ pc = "exited" => gitbookClient.constructed
               /\ file["GITBOOK_ORGANIZATION_ID"] # Undefined =>
                     resolvedConfig.organizationId =
                        IF Truthy(argv.organizationId)
                        THEN argv.organizationId
                        ELSE file["GITBOOK_ORGANIZATION_ID"]
               /\ file["GITBOOK_SPACE_ID"] # Undefined =>
                     resolvedConfig.spaceId =
                        IF Truthy(argv.spaceId) THEN argv.spaceId
                        ELSE file["GITBOOK_SPACE_ID"]

\* a start-up with nothing in the process environment and a .env file
\* defining the token and the space: the token check passes, the resolver
\* takes the file's space, and --organization-id gives the organization
C27_Witness ==
    /\ pc = "running"
    /\ ~envFileState[1].exists
    /\ IsLoadedFile(2)
    /\ apiToken = "tok_dotenv"
    /\ gitbookClient.apiToken = "tok_dotenv"
    /\ argv = [organizationId |-> "org_cli", spaceId |-> Undefined]
    /\ resolvedConfig = [organizationId |-> "org_cli",
                         spaceId |-> "space_dotenv"]

-----------------------------------------------------------------------------
(* Prompts *)

\* the text pieces carry the space id right after its label
CarriesSpaceId(parts, id) ==
    \E i \in 1..(Len(parts) - 1) :
        parts[i] = "\n\n**Space ID**: " /\ parts[i + 1] = id

\* C28: every prompt issues no outbound request; it returns exactly one user
\* message whose text contains the effective space id (the explicit spaceId,
\* else the configured default) and raises the missing-space error when
\* neither exists.
C28_PromptsReplyWithoutRequest ==
    call.op \in Prompts =>
        /\ call.state = "done"
        /\ call.requests = 0
        /\ call.request = NoRequest
        /\ LET effectiveSpaceId == Or(call.args.spaceId,
                                      gitbookClient.defaultSpaceId)
           IN IF Truthy(effectiveSpaceId)
              THEN /\ ~call.outcome.threw
                   /\ call.outcome.shape = "messages"
                   /\ CarriesSpaceId(call.outcome.parts, effectiveSpaceId)
              ELSE /\ call.outcome.threw
                   /\ call.outcome.message = NoSpaceMessage
                   /\ call.outcome.shape = "none"

\* troubleshooting_assistant without spaceId on a server whose default space
\* is space_cli
C28_Witness ==
    /\ call.state = "done"
    /\ call.op = "troubleshooting_assistant"
    /\ call.args.spaceId = Undefined
    /\ gitbookClient.defaultSpaceId = "space_cli"
    /\ call.requests = 0
    /\ call.outcome.shape = "messages"
    /\ call.outcome.parts[1] = "I need help troubleshooting a GitBook issue."
    /\ call.outcome.parts[3] = "space_cli"

-----------------------------------------------------------------------------
(* The default-space resource *)

\* C29: the resource gitbook://default-space is registered if and only if a
\* (non-empty) default space id was resolved at start-up, and every read of
\* it requests /spaces/<default>/content for exactly that start-up-resolved
\* space, whatever invocations happened before.
C29_DefaultSpaceResource ==
    /\ gitbookClient.constructed =>
          ("default-space" \in resources <=> Truthy(resolvedConfig.spaceId))
    /\ ~gitbookClient.constructed => resources = {}
    /\ call.op = "default-space" =>
          /\ "default-space" \in resources
          /\ call.requests = 1
          /\ call.request.url = baseURL \o "/spaces/"
                \o resolvedConfig.spaceId \o "/content"
          /\ call.request.url = baseURL \o "/spaces/"
                \o Or(argv.spaceId, EnvSpaceId) \o "/content"

\* a read of the resource on a server started with --space-id space_cli and
\* GITBOOK_SPACE_ID=space_env
C29_Witness ==
    /\ call.state = "done"
    /\ call.op = "default-space"
    /\ argv.spaceId = "space_cli"
    /\ EnvSpaceId = "space_env"
    /\ "default-space" \in resources
    /\ call.request.url = "https://api.gitbook.com/v1/spaces/space_cli/content"
    /\ call.response.status = 200

-----------------------------------------------------------------------------
(* Determinism of the request *)

\* C30: two invocations of the same tool with the same arguments issue
\* requests with the same URL, method and headers (or both issue none),
\* whichever other invocations, successful or failed, were started and
\* completed between the two.
C30_SameInvocationSameRequest ==
    /\ call.state \in {"pending", "done"}
    /\ concurrent.state \in {"pending", "done"}
    /\ call.op \in Tools
    /\ concurrent.op = call.op
    /\ concurrent.args = call.args
    => /\ concurrent.requests = call.requests
       /\ concurrent.request.url = call.request.url
       /\ concurrent.request.method = call.request.method
       /\ concurrent.request.headers = call.request.headers
       /\ concurrent.request.body = call.request.body

\* get_space_content without spaceId is awaiting its response; a second
\* invocation of it, started later, has the same request and has already
\* failed with a 404
C30_Witness ==
    /\ call.state = "pending"
    /\ call.op = "get_space_content"
    /\ call.args.spaceId = Undefined
    /\ concurrent.state = "done"
    /\ concurrent.op = "get_space_content"
    /\ concurrent.args = call.args
    /\ concurrent.response.status = 404
    /\ concurrent.request = call.request
    /\ call.request.url = "https://api.gitbook.com/v1/spaces/space_env/content"

====
